---- MODULE Spec2Model ----
(***************************************************************************)
(* Model of the xsignal-backend decision pipeline: the scheduler jobs      *)
(* (ai/scheduler.py), the configuration loader (ai/config.py), the         *)
(* multi-timeframe confirmer (ai/multi_tf.py), the scorer (ai/scoring.py), *)
(* the tier router (ai/tier_router.py), the signal builder                 *)
(* (ai/signal_engine.py) and the candle provider (ai/data_feed.py).        *)
(*                                                                         *)
(* Conventions.  Prices are integers.  Quantities that the code keeps as   *)
(* floats in [0,1] are kept in thousandths (UNIT = 1.0); ratios that the   *)
(* code compares with small calibration bounds are kept in parts per       *)
(* million.  Symbols are sequences of one-character strings, so that       *)
(* upper() and strip() are computed and not assumed.                       *)
(***************************************************************************)
EXTENDS Integers, Sequences, FiniteSets, TLC

\* ------------------------------------------------------------------ bounds
MaxQueue == 2
MaxSlots == 2
MaxTriggers == 2
MaxChanges == 1
MaxModerations == 1
MaxBusyJobs == 1

\* ------------------------------------------------------- program constants
UNIT == 1000
PPM == UNIT * UNIT
\* a scheduler set up to let two instances of one job overlap
max_instances_two == 1 + 1

max_instances == 1
SCORE_MAX == 100
\* Prices are in units of 0.0001 of the quote currency and the levels of a
\* signal in eighths of that unit: TICK level units are 0.0001, the step of
\* round(x, 4).  In a frame priced in units of 0.00000001 the step is
\* TINY_TICK level units.
TICK == 8
TINY_TICK == 80000
MIN_STRUCTURE_LEN == 25
ROLL == 20
FEATURE_ROLL_LEN == 22
STRUCTURE_MIN == 250
TREND15_MIN == 250
TREND1H_MIN == 200

Jobs == {"scan_scalp", "scan_swing"}
Slots == 1..MaxSlots

ModeOf(j) == IF j = "scan_scalp" THEN "scalp" ELSE "swing"

BINANCE_URLS == <<"data-api.binance.vision", "api.binance.com">>

\* ------------------------------------------------------------ small helpers
Max2(a, b) == IF a >= b THEN a ELSE b
Min2(a, b) == IF a <= b THEN a ELSE b
Abs(a) == IF a >= 0 THEN a ELSE 0 - a

RECURSIVE SeqMax(_, _, _, _)
SeqMax(s, f, lo, hi) ==
  IF lo = hi THEN s[lo][f] ELSE Max2(s[lo][f], SeqMax(s, f, lo + 1, hi))

RECURSIVE SeqMin(_, _, _, _)
SeqMin(s, f, lo, hi) ==
  IF lo = hi THEN s[lo][f] ELSE Min2(s[lo][f], SeqMin(s, f, lo + 1, hi))

\* ----------------------------------------------------------------- symbols
\* str.upper() on one character
UpperChar(c) ==
  CASE c = "b" -> "B"
    [] c = "t" -> "T"
    [] c = "c" -> "C"
    [] c = "e" -> "E"
    [] c = "h" -> "H"
    [] OTHER -> c

upper(s) == [i \in 1..Len(s) |-> UpperChar(s[i])]

RECURSIVE lstrip(_)
lstrip(s) == IF s # <<>> /\ Head(s) = " " THEN lstrip(Tail(s)) ELSE s

RECURSIVE rstrip(_)
rstrip(s) ==
  IF s # <<>> /\ s[Len(s)] = " " THEN rstrip(SubSeq(s, 1, Len(s) - 1)) ELSE s

strip(s) == rstrip(lstrip(s))

\* pair.upper().strip()
upper_strip(s) == strip(upper(s))

\* the symbols the model uses (the exchange suffix USDT is left out)
BTC == <<"B", "T", "C">>
ETH == <<"E", "T", "H">>
SOL == <<"S", "O", "L">>
btc_padded == <<"b", "t", "c", " ">>

SeqToSet(s) == {s[i] : i \in 1..Len(s)}

\* ----------------------------------------------------------- configuration
\* A stored threshold is a number or something int() refuses (a word, a
\* null, a list); a key the document lacks is a key the record lacks.
Num(n) == [num |-> TRUE, v |-> n]
NotNum == [num |-> FALSE, v |-> 0]

DEFAULTS ==
  [enabled |-> TRUE,
   min_xscore_free |-> Num(55),
   min_xscore_pro |-> Num(70),
   min_xscore_xpro |-> Num(85),
   pairs |-> <<BTC, ETH, SOL>>]

\* a merge that returns the stored document alone
StoredOnly(data) == data

\* {**DEFAULTS, **data}
MergeDefaults(data) ==
  [k \in DOMAIN DEFAULTS \cup DOMAIN data |->
     IF k \in DOMAIN data THEN data[k] ELSE DEFAULTS[k]]

\* documents an administrator may store in /config/signal_engine
ConfigDocs ==
  { [enabled |-> FALSE],
    [pairs |-> <<btc_padded, BTC>>, min_xscore_free |-> Num(50)],
    [pairs |-> <<>>] }

\* ------------------------------------------------------------ candle series
\* A data frame is the candle sequence the provider returned plus the last
\* values of the indicator series the ta library computes from it (a value
\* the library leaves NaN has ok = FALSE).
Candle(h, l, c, v) == [high |-> h, low |-> l, close |-> c, volume |-> v]
TaVal(v) == [ok |-> TRUE, v |-> v]
TaNaN == [ok |-> FALSE, v |-> 0]

BaseCandle == Candle(1000, 990, 995, 100)

Series(n, last) == [i \in 1..n |-> IF i = n THEN last ELSE BaseCandle]

Frame(n, last, atr, adx, rsi, ef, es) ==
  [candles |-> Series(n, last), tick |-> TICK,
   ta |-> [atr |-> atr, adx |-> adx, rsi |-> rsi, ema_fast |-> ef, ema_slow |-> es]]

\* the same numbers read as prices in a smaller unit
Repriced(df, t) == [df EXCEPT !.tick = t]

DF_UP == Frame(25, Candle(1010, 995, 1008, 200),
               TaVal(8), TaVal(40), TaVal(70), TaVal(1000), TaVal(990))
DF_DOWN == Frame(25, Candle(995, 980, 982, 200),
                 TaVal(8), TaVal(40), TaVal(30), TaVal(990), TaVal(1000))
DF_SOFT == Frame(25, Candle(1003, 995, 1002, 100),
                 TaVal(8), TaVal(12), TaVal(50), TaVal(1000), TaVal(998))
DF_FLAT == Frame(25, BaseCandle,
                 TaVal(5), TaVal(12), TaVal(50), TaVal(995), TaVal(995))
DF_SHORT == Frame(10, Candle(1010, 995, 1008, 200),
                  TaVal(0), TaNaN, TaNaN, TaNaN, TaNaN)
NoDf == [candles |-> <<>>, tick |-> TICK,
         ta |-> [atr |-> TaNaN, adx |-> TaNaN, rsi |-> TaNaN,
                 ema_fast |-> TaNaN, ema_slow |-> TaNaN]]

DataFrames == {DF_UP, DF_DOWN, DF_SOFT, DF_FLAT, DF_SHORT}

\* ---------------------------------------------------------------- provider
\* One response per endpoint of BINANCE_URLS: an HTTP/network failure or the
\* candles.
Responses ==
  {[ok |-> FALSE, df |-> NoDf]} \cup {[ok |-> TRUE, df |-> d] : d \in DataFrames}

RECURSIVE FetchFrom(_, _)
FetchFrom(resps, i) ==
  IF i > Len(BINANCE_URLS) THEN [raised |-> TRUE, df |-> NoDf]
  ELSE IF resps[i].ok THEN [raised |-> FALSE, df |-> resps[i].df]
  ELSE FetchFrom(resps, i + 1)

fetch_ohlcv_binance(resps) == FetchFrom(resps, 1)

\* safe_fetch sleeps, then fetches
safe_fetch(resps) == fetch_ohlcv_binance(resps)

\* what one fetch can give the caller
FetchOutcomes ==
  {fetch_ohlcv_binance(rs) : rs \in [1..Len(BINANCE_URLS) -> Responses]}

\* ----------------------------------------------------------------- scoring
\* a clamp that bounds from above only
clamp_above(x) == IF x > UNIT THEN UNIT ELSE x

\* float(np.clip(x, 0.0, 1.0))
_clamp01(x) == IF x < 0 THEN 0 ELSE IF x > UNIT THEN UNIT ELSE x

_safe_last(s, default) == IF s.ok THEN s.v ELSE default

\* x, lo, hi in one scale; the result in thousandths
_normalize_from_range(x, lo, hi) ==
  IF hi <= lo THEN 0 ELSE _clamp01(((x - lo) * UNIT) \div (hi - lo))

RECURSIVE SeqSum(_, _, _, _)
SeqSum(s, f, lo, hi) ==
  IF lo > hi THEN 0 ELSE s[lo][f] + SeqSum(s, f, lo + 1, hi)

extract_features(df) ==
  LET d == df.candles
      n == Len(d)
      last_close == d[n].close
      last_atr == _safe_last(df.ta.atr, 0)
      last_ema_fast == _safe_last(df.ta.ema_fast, last_close)
      last_ema_slow == _safe_last(df.ta.ema_slow, last_close)
      last_adx == _safe_last(df.ta.adx, 0)
      last_rsi == _safe_last(df.ta.rsi, 50)
      last_vol == d[n].volume
      \* 20 * vol_sma, or 20 * last_vol when the rolling mean is NaN
      vol_sma20 == IF n >= ROLL THEN SeqSum(d, "volume", n - ROLL + 1, n)
                   ELSE ROLL * last_vol
      hh20_prev == IF n >= FEATURE_ROLL_LEN THEN SeqMax(d, "high", n - ROLL, n - 1)
                   ELSE SeqMax(d, "high", 1, n)
      ll20_prev == IF n >= FEATURE_ROLL_LEN THEN SeqMin(d, "low", n - ROLL, n - 1)
                   ELSE SeqMin(d, "low", 1, n)
      above_hh == IF hh20_prev > 0 THEN ((last_close - hh20_prev) * PPM) \div hh20_prev
                  ELSE 0
      below_ll == IF ll20_prev > 0 THEN ((ll20_prev - last_close) * PPM) \div ll20_prev
                  ELSE 0
      breakout_raw == Max2(above_hh, below_ll)
      breakout_score == _normalize_from_range(breakout_raw, 0, 5000)
      vol_ratio == IF vol_sma20 > 0 THEN (last_vol * ROLL * UNIT) \div vol_sma20
                   ELSE UNIT
      vol_score == _normalize_from_range(vol_ratio, 800, 1800)
      adx_score == _normalize_from_range(last_adx, 10, 35)
      ema_sep == Abs(last_ema_fast - last_ema_slow)
      sep_ratio == IF last_close > 0 THEN (ema_sep * PPM) \div last_close ELSE 0
      sep_score == _normalize_from_range(sep_ratio, 0, 10000)
      atr_pct == IF last_close > 0 THEN (last_atr * PPM) \div last_close ELSE 0
  IN [structure_strength |-> _clamp01((65 * breakout_score + 35 * vol_score) \div 100),
      trend_strength |-> _clamp01((70 * adx_score + 30 * sep_score) \div 100),
      momentum |-> _clamp01((Abs(last_rsi - 50) * UNIT) \div 20),
      volatility |-> _normalize_from_range(atr_pct, 1500, 10000)]

\* a scorer that takes volatility off the score
xscore_less_volatility(b, low) ==
  LET total == 350 * b.f5.structure_strength
               + 35 * (6 * b.f15.trend_strength + 4 * b.f1h.trend_strength)
               + 200 * b.f5.momentum
               - 100 * b.f5.volatility
      short == IF low /\ total > 0 /\ total % (10 * UNIT) = 0 THEN 1 ELSE 0
      score == (total - short) \div (10 * UNIT)
  IN IF score < 0 THEN 0 ELSE IF score > SCORE_MAX THEN SCORE_MAX ELSE score

\* int(np.clip(score, 0, 100)); the sum below is score * 10 * UNIT.  The
\* code adds and multiplies binary floats: when the exact sum is a whole
\* number the float sum can come out just below it (0.2 * 0.6 + 0.7 * 0.4 is
\* 0.39999999999999997, and times 35 is 13.999999999999998), and int() then
\* gives one less.  low: the float sum fell short.
calculate_xscore(b, low) ==
  LET total == 350 * b.f5.structure_strength
               + 35 * (6 * b.f15.trend_strength + 4 * b.f1h.trend_strength)
               + 200 * b.f5.momentum
               + 100 * b.f5.volatility
      short == IF low /\ total > 0 /\ total % (10 * UNIT) = 0 THEN 1 ELSE 0
      score == (total - short) \div (10 * UNIT)
  IN IF score < 0 THEN 0 ELSE IF score > SCORE_MAX THEN SCORE_MAX ELSE score

\* ------------------------------------------------------------- tier router
\* cfg.get(key, default)
Get(cfg, key, default) == IF key \in DOMAIN cfg THEN cfg[key] ELSE default

\* a tier_from_xscore that tries the lowest tier first
tier_lowest_first(xscore, cfg) ==
  LET free == Get(cfg, "min_xscore_free", Num(55))
      pro == Get(cfg, "min_xscore_pro", Num(70))
      xpro == Get(cfg, "min_xscore_xpro", Num(85))
      good == free.num /\ pro.num /\ xpro.num
      min_free == IF good THEN free.v ELSE 55
      min_pro == IF good THEN pro.v ELSE 70
      min_xpro == IF good THEN xpro.v ELSE 85
  IN IF xscore >= min_free THEN "free"
     ELSE IF xscore >= min_pro THEN "pro"
     ELSE IF xscore >= min_xpro THEN "xpro"
     ELSE "reject"

\* a tier_from_xscore whose comparisons are strict
tier_strict(xscore, cfg) ==
  LET free == Get(cfg, "min_xscore_free", Num(55))
      pro == Get(cfg, "min_xscore_pro", Num(70))
      xpro == Get(cfg, "min_xscore_xpro", Num(85))
      good == free.num /\ pro.num /\ xpro.num
      min_free == IF good THEN free.v ELSE 55
      min_pro == IF good THEN pro.v ELSE 70
      min_xpro == IF good THEN xpro.v ELSE 85
  IN IF xscore > min_xpro THEN "xpro"
     ELSE IF xscore > min_pro THEN "pro"
     ELSE IF xscore > min_free THEN "free"
     ELSE "reject"

\* Lines 10-16: the three int() calls share one try, so one value that
\* int() refuses puts all three at 55/70/85; a missing key takes its own
\* default only.
tier_from_xscore(xscore, cfg) ==
  LET free == Get(cfg, "min_xscore_free", Num(55))
      pro == Get(cfg, "min_xscore_pro", Num(70))
      xpro == Get(cfg, "min_xscore_xpro", Num(85))
      good == free.num /\ pro.num /\ xpro.num
      min_free == IF good THEN free.v ELSE 55
      min_pro == IF good THEN pro.v ELSE 70
      min_xpro == IF good THEN xpro.v ELSE 85
  IN IF xscore >= min_xpro THEN "xpro"
     ELSE IF xscore >= min_pro THEN "pro"
     ELSE IF xscore >= min_free THEN "free"
     ELSE "reject"

\* ---------------------------------------------------------------- confirmer
_trend_dir(df) ==
  LET d == df.candles
      n == Len(d)
  IN IF n < 2 THEN 0
     ELSE IF d[n].close >= d[n - 1].close THEN 1 ELSE 0 - 1

\* the breakout test with the level itself counted as a breakout
structure_side_inclusive(df) ==
  LET d == df.candles
      n == Len(d)
  IN IF n < MIN_STRUCTURE_LEN THEN "none"
     ELSE IF d[n].close >= SeqMax(d, "high", n - ROLL, n - 1) THEN "buy"
     ELSE IF d[n].close <= SeqMin(d, "low", n - ROLL, n - 1) THEN "sell"
     ELSE "none"

_structure_side(df) ==
  LET d == df.candles
      n == Len(d)
  IN IF n < MIN_STRUCTURE_LEN THEN "none"
     ELSE LET last_close == d[n].close
              prev_hh == SeqMax(d, "high", n - ROLL, n - 1)
              prev_ll == SeqMin(d, "low", n - ROLL, n - 1)
          IN IF last_close > prev_hh THEN "buy"
             ELSE IF last_close < prev_ll THEN "sell"
             ELSE "none"

\* the three fetches have succeeded and returned df_5m, df_15m, df_1h
multi_tf_confirm(df_5m, df_15m, df_1h) ==
  LET f5 == extract_features(df_5m)
      f15 == extract_features(df_15m)
      f1h == extract_features(df_1h)
      feats == [f5 |-> f5, f15 |-> f15, f1h |-> f1h]
      side == _structure_side(df_5m)
      want_dir == IF side = "buy" THEN 1 ELSE 0 - 1
      trend_ok == _trend_dir(df_15m) = want_dir /\ _trend_dir(df_1h) = want_dir
      structure_ok == f5.structure_strength >= STRUCTURE_MIN
      higher_tf_trend_ok == f15.trend_strength >= TREND15_MIN
                            /\ f1h.trend_strength >= TREND1H_MIN
  IN IF side \notin {"buy", "sell"}
       THEN [ok |-> FALSE, side |-> "none", feats |-> feats]
       ELSE [ok |-> trend_ok /\ structure_ok /\ higher_tf_trend_ok,
             side |-> side, feats |-> feats]

\* ------------------------------------------------------------------ builder
\* Levels are kept multiplied by 8, so that 0.25 * atr and the midpoint stay
\* integers.  NoSignal stands for None.

\* round(x, 4): the nearest multiple of the step t, a tie going to the even
\* multiple
round4(x, t) ==
  LET q == x \div t
      r == x % t
  IN IF 2 * r < t THEN q * t
     ELSE IF 2 * r > t THEN (q + 1) * t
     ELSE IF q % 2 = 0 THEN q * t
     ELSE (q + 1) * t

NoSignal == [side |-> "none", entry_min |-> 0, entry_max |-> 0, entry_mid |-> 0,
             sl |-> 0, tp1 |-> 0, tp2 |-> 0, tp3 |-> 0]

generate_signal(df, mode) ==
  LET d == df.candles
      n == Len(d)
      atr == df.ta.atr.v
      last == d[n]
      prev == d[n - 1]
      \* rolling(20).max().iloc[-2] is NaN with fewer than 21 candles, and
      \* every comparison with NaN is false
      side == IF n < ROLL + 1 THEN "none"
              ELSE IF last.close > SeqMax(d, "high", n - ROLL, n - 1) THEN "buy"
              ELSE IF last.close < SeqMin(d, "low", n - ROLL, n - 1) THEN "sell"
              ELSE "none"
      pad == atr * (IF mode = "scalp" THEN 2 ELSE 4)
      entry_min == 8 * prev.low - pad
      entry_max == 8 * prev.high + pad
      entry_mid == (entry_min + entry_max) \div 2
      sl == IF side = "buy" THEN 8 * prev.low - 4 * atr ELSE 8 * prev.high + 4 * atr
      risk == Abs(entry_mid - sl)
      sgn == IF side = "buy" THEN 1 ELSE 0 - 1
  IN IF side = "none" THEN NoSignal
     ELSE [side |-> side,
           entry_min |-> round4(entry_min, df.tick),
           entry_max |-> round4(entry_max, df.tick),
           entry_mid |-> round4(entry_mid, df.tick),
           sl |-> round4(sl, df.tick),
           tp1 |-> round4(entry_mid + sgn * risk, df.tick),
           tp2 |-> round4(entry_mid + sgn * 2 * risk, df.tick),
           tp3 |-> round4(entry_mid + sgn * 3 * risk, df.tick)]

\* ------------------------------------------- the pipeline's provider calls
\* scan_pair lines 145-151 for one answer of the provider to the three
\* fetches of multi_tf_confirm: the call raises (a fetch failed on every
\* endpoint), or returns ok and side, with the score of the bundle.
ConfirmAndScore(o5, o15, o1h, low) ==
  IF o5.raised \/ o15.raised \/ o1h.raised
    THEN [raised |-> TRUE, ok |-> FALSE, side |-> "none", xscore |-> 0,
          fetched |-> IF o5.raised THEN 1 ELSE IF o15.raised THEN 2 ELSE 3]
  ELSE LET c == multi_tf_confirm(o5.df, o15.df, o1h.df)
       IN [raised |-> FALSE, ok |-> c.ok, side |-> c.side,
           xscore |-> calculate_xscore(c.feats, low), fetched |-> 3]

ConfirmOutcomes ==
  {ConfirmAndScore(o5, o15, o1h, low) :
     o5 \in FetchOutcomes, o15 \in FetchOutcomes, o1h \in FetchOutcomes,
     low \in BOOLEAN}

\* scan_pair lines 163-165 for one answer of the provider to safe_fetch:
\* the fetch raises, or generate_signal raises (no previous candle), or it
\* returns a signal or None.
FetchAndBuild(o, mode) ==
  IF o.raised \/ Len(o.df.candles) < 2
    THEN [raised |-> TRUE, signal |-> NoSignal]
  ELSE [raised |-> FALSE, signal |-> generate_signal(o.df, mode)]

BuildOutcomesScalp == {FetchAndBuild(o, "scalp") : o \in FetchOutcomes}
BuildOutcomesSwing == {FetchAndBuild(o, "swing") : o \in FetchOutcomes}
BuildOutcomes(mode) == IF mode = "scalp" THEN BuildOutcomesScalp ELSE BuildOutcomesSwing

\* =================================================================== state
VARIABLES
  fbInit,     \* firebase_admin._apps is non-empty (set before startup)
  db,         \* ai.scheduler.db: "none" or "client"
  docExists,  \* /config/signal_engine exists in the store
  docData,    \* its fields
  queue,      \* the signal_queue collection, in creation order
  inst,       \* inst[j][s]: instance s of job j (its position and locals)
  runs,       \* job instances started so far
  skips,      \* trigger firings skipped so far
  changes,    \* configuration documents stored by the administrator so far
  moderated,  \* records the moderator has decided so far
  signals,    \* the signals collection, in creation order
  call        \* one call of a pure function: its name, arguments and result

vars == <<fbInit, db, docExists, docData, queue, inst, runs, skips, changes,
          moderated, signals, call>>

env == <<runs, skips, changes, moderated, signals, call>>

NoCfg == [enabled |-> FALSE, min_xscore_free |-> Num(0), min_xscore_pro |-> Num(0),
          min_xscore_xpro |-> Num(0), pairs |-> <<>>]

\* what an invocation of scan_pair has seen so far (history, not read by
\* the code): the enabled flag of the configuration it loaded, whether the
\* allowlist let its pair through, and the confirmer's ok
NoSeen == [enabled |-> FALSE, allowed |-> FALSE, listed |-> FALSE, ok |-> FALSE]

IdleInst ==
  [pc |-> "idle", jobcfg |-> NoCfg, idx |-> 0, pair |-> <<>>, cfg |-> NoCfg,
   side |-> "none", xscore |-> 0, tier |-> "none",
   sig |-> NoSignal, lookup |-> "none", blocked |-> FALSE, seen |-> NoSeen,
   exitAt |-> "none", ret |-> "unset", scanned |-> 0, fetches |-> 0]

\* the locals of one scan_pair call, cleared; fetches is history the code
\* does not keep: the candle fetches the call has made
ScanLocals(r) ==
  [r EXCEPT !.pair = <<>>, !.cfg = NoCfg, !.side = "none", !.xscore = 0, !.tier = "none",
            !.sig = NoSignal, !.lookup = "none",
            !.blocked = FALSE, !.seen = NoSeen, !.exitAt = "none",
            !.ret = "unset", !.fetches = 0]

Running(j) == {s \in Slots : inst[j][s].pc # "idle"}

Set(j, s, r) == inst' = [inst EXCEPT ![j][s] = r]

\* ------------------------------------------------------------ config loader
\* load_engine_config: the configuration returned and what the call leaves
\* in the store.  up: the store answers this call.
load_engine_config(up) ==
  IF ~fbInit \/ ~up
    THEN [cfg |-> DEFAULTS, exists |-> docExists, data |-> docData]
  ELSE IF ~docExists
    THEN [cfg |-> DEFAULTS, exists |-> TRUE, data |-> DEFAULTS]
  ELSE [cfg |-> MergeDefaults(docData), exists |-> docExists, data |-> docData]

\* ------------------------------------------------------------------- gates
\* a kill switch that is not consulted
KillSwitchIgnored(cfg) == FALSE

KillSwitchStops(cfg) == ~cfg.enabled

allowed_pairs(cfg) == {upper_strip(cfg.pairs[i]) : i \in 1..Len(cfg.pairs)}

\* line 141 as written
AllowlistBlocks(cfg, pair) ==
  allowed_pairs(cfg) # {} /\ pair \notin allowed_pairs(cfg)

AllowlistStops(cfg, pair) == AllowlistBlocks(cfg, pair)

\* a confirmer whose verdict is not consulted
ConfirmIgnored(c) == FALSE

ConfirmStops(c) == ~c.ok

\* a router whose reject is not consulted
TierIgnored(tier) == FALSE

TierStops(tier) == tier = "reject"

BuilderStops(signal) == signal = NoSignal

\* a side comparison that is not made
SideMismatchIgnored(signal, side) == FALSE

SideMismatch(signal, side) == signal.side # side

\* scan_pair lines 133-142: where the invocation stops for configuration
\* cfg and pair; "pass" when it goes on
StopsAtConfig(cfg, pair) ==
  IF KillSwitchStops(cfg) THEN "L135"
  ELSE IF AllowlistStops(cfg, pair) THEN "L142"
  ELSE "pass"

\* scan_pair lines 145-159, for the confirmer's answer c.  Lines 152-154 are
\* not reached: the bundle multi_tf_confirm returns always has the keys
\* calculate_xscore reads.
StopsAtConfirm(cfg, c) ==
  IF c.raised THEN "raise_L145"
  ELSE IF ConfirmStops(c) THEN "L147"
  ELSE IF TierStops(tier_from_xscore(c.xscore, cfg)) THEN "L159"
  ELSE "pass"

\* scan_pair lines 163-171, for the builder's answer b and the confirmer's
\* side
StopsAtBuild(b, side) ==
  IF b.raised THEN "raise_L163"
  ELSE IF BuilderStops(b.signal) THEN "L167"
  ELSE IF SideMismatch(b.signal, side) THEN "L171"
  ELSE "pass"

\* --------------------------------------------------------------- spam guard
\* the pending records of (pair, mode), by position in creation order
PendingOf(q, pair, mode) ==
  {i \in 1..Len(q) : q[i].pair = pair /\ q[i].mode = mode /\ q[i].status = "pending"}

MaxOf(S) == CHOOSE i \in S : \A k \in S : k <= i

\* the newest record of (pair, mode), whatever its status; 0 when none
Newest(q, pair, mode) ==
  LET S == {i \in 1..Len(q) : q[i].pair = pair /\ q[i].mode = mode}
  IN IF S = {} THEN 0 ELSE MaxOf(S)

\* a guard that compares with the newest record whatever its status
spam_block_any_status(q, pair, mode, side, up) ==
  IF db = "none" THEN FALSE
  ELSE IF ~up THEN FALSE
  ELSE IF Newest(q, pair, mode) = 0 THEN FALSE
  ELSE q[Newest(q, pair, mode)].side = side

\* a guard that blocks when the query fails
spam_block_fail_closed(q, pair, mode, side, up) ==
  IF db = "none" THEN FALSE
  ELSE IF ~up THEN TRUE
  ELSE IF PendingOf(q, pair, mode) = {} THEN FALSE
  ELSE q[MaxOf(PendingOf(q, pair, mode))].side = side

\* a guard that blocks when any pending record of the pair and mode has the
\* side
spam_block_any_pending(q, pair, mode, side, up) ==
  IF db = "none" THEN FALSE
  ELSE IF ~up THEN FALSE
  ELSE \E i \in PendingOf(q, pair, mode) : q[i].side = side

\* a guard that is switched off
spam_block_off(q, pair, mode, side, up) == FALSE

\* up: the query succeeds
should_spam_block(q, pair, mode, side, up) ==
  IF db = "none" THEN FALSE
  ELSE IF ~up THEN FALSE
  ELSE IF PendingOf(q, pair, mode) = {} THEN FALSE
  ELSE q[MaxOf(PendingOf(q, pair, mode))].side = side

\* ------------------------------------------------------------------ publish
\* a record born already decided
InitialStatusApproved == "approved"

InitialStatus == "pending"

\* The record publish_signal adds; of the fields the code writes, features
\* and the levels of the signal are left out.  createdAt is the store's
\* timestamp.  Two fields are history the code does not write: from holds
\* what the adding invocation had seen at its gates, and later turns TRUE
\* when a later candidate of the same pair and mode reaches the spam check.
QueueRecord(q, r, mode) ==
  [pair |-> r.pair, mode |-> mode, tier |-> r.tier, side |-> r.sig.side,
   xscore |-> r.xscore, status |-> InitialStatus, createdAt |-> Len(q) + 1,
   later |-> FALSE,
   from |-> [enabled |-> r.seen.enabled,
             allowed |-> r.seen.allowed,
             listed |-> r.seen.listed,
             ok |-> r.seen.ok,
             confirm_side |-> r.side,
             builder_side |-> r.sig.side,
             routed |-> r.tier,
             blocked |-> r.blocked]]

\* a failed write that leaves the record behind
add_partial(q, rec) == Append(q, rec)

\* publish_signal lines 115-116: the queue after add() raised
add_failed(q, rec) == q

\* no pure-function call is being followed
NoCall == [fn |-> "none", done |-> FALSE]

\* ------------------------------------------------------------------ actions
Init ==
  /\ fbInit \in BOOLEAN
  /\ db \in (IF fbInit THEN {"none", "client"} ELSE {"none"})
  /\ docExists = FALSE
  /\ docData = DEFAULTS
  /\ queue = <<>>
  /\ inst = [j \in Jobs |-> [s \in Slots |-> IdleInst]]
  /\ runs = 0
  /\ skips = 0
  /\ changes = 0
  /\ moderated = 0
  /\ signals = <<>>
  /\ call = NoCall

\* The interval trigger of job j fires and an instance may start: the job
\* function reads the configuration and begins its loop over cfg["pairs"].
StartJob(j) ==
  /\ Cardinality(Running(j)) < max_instances
  /\ runs + skips < MaxTriggers
  /\ runs' = runs + 1
  /\ \E up \in BOOLEAN :
       LET s == CHOOSE x \in Slots \ Running(j) : \A y \in Slots \ Running(j) : x <= y
           l == load_engine_config(up)
       IN /\ docExists' = l.exists
          /\ docData' = l.data
          /\ Set(j, s, [IdleInst EXCEPT
                          !.jobcfg = l.cfg,
                          !.idx = IF Len(l.cfg.pairs) > 0 THEN 1 ELSE 0,
                          !.pc = IF Len(l.cfg.pairs) > 0 THEN "scan_pair"
                                 ELSE "finished"])
  /\ UNCHANGED <<fbInit, db, queue, skips, changes, moderated, signals, call>>

\* the same, with the number of jobs that run side by side capped
TriggerStart(j) ==
  /\ Cardinality({k \in Jobs : k = j \/ Running(k) # {}}) <= MaxBusyJobs
  /\ StartJob(j)

\* The trigger fires while max_instances instances of the job are running:
\* the run is skipped.
TriggerSkip(j) ==
  /\ Cardinality(Running(j)) >= max_instances
  /\ runs + skips < MaxTriggers
  /\ skips' = skips + 1
  /\ UNCHANGED <<fbInit, db, docExists, docData, queue, inst, runs,
                 changes, moderated, signals, call>>

\* scan_pair, lines 130-142: configuration, kill switch, allowlist
ScanStart(j, s) ==
  LET r == inst[j][s] IN
  /\ r.pc = "scan_pair"
  /\ \E up \in BOOLEAN :
       LET l == load_engine_config(up)
           cfg == l.cfg
           pair == upper_strip(r.jobcfg.pairs[r.idx])
           stop == StopsAtConfig(cfg, pair)
           seen == [NoSeen EXCEPT
                      !.enabled = cfg.enabled,
                      !.allowed = stop # "L135" /\ ~AllowlistBlocks(cfg, pair),
                      !.listed = pair \in allowed_pairs(cfg)]
       IN /\ docExists' = l.exists
          /\ docData' = l.data
          /\ IF stop = "pass"
               THEN Set(j, s, [r EXCEPT !.cfg = cfg, !.pair = pair, !.seen = seen,
                                        !.pc = "confirm"])
             ELSE Set(j, s, [r EXCEPT !.cfg = cfg, !.pair = pair, !.seen = seen,
                                      !.exitAt = stop, !.ret = "None",
                                      !.pc = "returned"])
  /\ UNCHANGED <<fbInit, db, queue, env>>

\* scan_pair, lines 145-159: confirm, score, route
Confirm(j, s) ==
  LET r == inst[j][s] IN
  /\ r.pc = "confirm"
  /\ \E c \in ConfirmOutcomes :
       LET stop == StopsAtConfirm(r.cfg, c)
           seen == [r.seen EXCEPT !.ok = c.ok]
       IN IF stop = "pass"
            THEN Set(j, s, [r EXCEPT !.side = c.side, !.xscore = c.xscore,
                                     !.tier = tier_from_xscore(c.xscore, r.cfg),
                                     !.seen = seen, !.fetches = c.fetched,
                                     !.pc = "build"])
          ELSE Set(j, s, [r EXCEPT !.exitAt = stop, !.fetches = c.fetched,
                                   !.ret = IF stop = "raise_L145" THEN "unset"
                                           ELSE "None",
                                   !.pc = IF stop = "raise_L145" THEN "raised"
                                          ELSE "returned"])
  /\ UNCHANGED <<fbInit, db, docExists, docData, queue, env>>

\* scan_pair, lines 162-171: fetch the mode's timeframe, build, compare sides
Build(j, s) ==
  LET r == inst[j][s] IN
  /\ r.pc = "build"
  /\ \E b \in BuildOutcomes(ModeOf(j)) :
       LET stop == StopsAtBuild(b, r.side)
       IN IF stop = "pass"
            THEN Set(j, s, [r EXCEPT !.sig = b.signal,
                                     !.fetches = r.fetches + 1, !.pc = "spam"])
          ELSE Set(j, s, [r EXCEPT !.exitAt = stop, !.fetches = r.fetches + 1,
                                   !.ret = IF stop = "raise_L163" THEN "unset"
                                           ELSE "None",
                                   !.pc = IF stop = "raise_L163" THEN "raised"
                                          ELSE "returned"])
  /\ UNCHANGED <<fbInit, db, docExists, docData, queue, env>>

\* scan_pair, lines 174-175
SpamCheck(j, s) ==
  LET r == inst[j][s] IN
  /\ r.pc = "spam"
  /\ \E up \in BOOLEAN :
       LET blocked == should_spam_block(queue, r.pair, ModeOf(j), r.side, up)
           lookup == IF db = "none" THEN "nodb" ELSE IF up THEN "ok" ELSE "failed"
       IN IF blocked
            THEN Set(j, s, [r EXCEPT !.blocked = TRUE, !.lookup = lookup,
                                     !.ret = "None",
                                     !.pc = "returned", !.exitAt = "L175"])
          ELSE Set(j, s, [r EXCEPT !.lookup = lookup, !.pc = "publish"])
  /\ queue' = [i \in 1..Len(queue) |->
                 IF i = Newest(queue, r.pair, ModeOf(j))
                   THEN [queue[i] EXCEPT !.later = TRUE] ELSE queue[i]]
  /\ UNCHANGED <<fbInit, db, docExists, docData, env>>

\* scan_pair, line 177: publish_signal
Publish(j, s) ==
  LET r == inst[j][s] IN
  /\ r.pc = "publish"
  /\ IF db = "none"
       THEN /\ Set(j, s, [r EXCEPT !.pc = "returned", !.ret = "None",
                                       !.exitAt = "L106"])
            /\ UNCHANGED queue
     ELSE \E up \in BOOLEAN :
            IF up
              THEN /\ Len(queue) < MaxQueue
                   /\ queue' = Append(queue, QueueRecord(queue, r, ModeOf(j)))
                   /\ Set(j, s, [r EXCEPT !.pc = "returned", !.ret = "None",
                                       !.exitAt = "L114"])
            ELSE /\ queue' = add_failed(queue, QueueRecord(queue, r, ModeOf(j)))
                 /\ Set(j, s, [r EXCEPT !.pc = "returned", !.ret = "None",
                                       !.exitAt = "L116"])
  /\ UNCHANGED <<fbInit, db, docExists, docData, env>>

\* a loop that stays at the pair it has scanned
same_pair(i) == i

\* lines 189 and 194: the for loop takes the next pair of the list
next_pair(i) == i + 1

\* scan_pair has returned: the job's loop takes the next pair or ends
JobNext(j, s) ==
  LET r == inst[j][s] IN
  /\ r.pc = "returned"
  /\ Set(j, s, [ScanLocals(r) EXCEPT
                  !.scanned = r.scanned + 1,
                  !.idx = IF r.idx < Len(r.jobcfg.pairs) THEN next_pair(r.idx)
                         ELSE r.idx,
                  !.pc = IF r.idx < Len(r.jobcfg.pairs) THEN "scan_pair"
                         ELSE "finished"])
  /\ UNCHANGED <<fbInit, db, docExists, docData, queue, env>>

\* the job function has returned or raised: the scheduler frees the instance
Release(j, s) ==
  /\ inst[j][s].pc \in {"finished", "raised"}
  /\ Set(j, s, IdleInst)
  /\ UNCHANGED <<fbInit, db, docExists, docData, queue, env>>

\* the external moderator approves or rejects a pending record
Moderate(i, st) ==
  /\ i \in 1..Len(queue)
  /\ queue[i].status = "pending"
  /\ moderated < MaxModerations
  /\ moderated' = moderated + 1
  /\ queue' = [queue EXCEPT ![i].status = st]
  /\ UNCHANGED <<fbInit, db, docExists, docData, inst, runs, skips,
                 changes, signals, call>>

\* an administrator stores a configuration document
AdminSetConfig(d) ==
  /\ fbInit
  /\ changes < MaxChanges
  /\ ~(docExists /\ docData = d)
  /\ docExists' = TRUE
  /\ docData' = d
  /\ changes' = changes + 1
  /\ UNCHANGED <<fbInit, db, queue, inst, runs, skips, moderated, signals, call>>

Next ==
  \/ \E j \in Jobs : TriggerStart(j)
  \/ \E j \in Jobs : TriggerSkip(j)
  \/ \E j \in Jobs, s \in Slots : ScanStart(j, s)
  \/ \E j \in Jobs, s \in Slots : Confirm(j, s)
  \/ \E j \in Jobs, s \in Slots : Build(j, s)
  \/ \E j \in Jobs, s \in Slots : SpamCheck(j, s)
  \/ \E j \in Jobs, s \in Slots : Publish(j, s)
  \/ \E j \in Jobs, s \in Slots : JobNext(j, s)
  \/ \E j \in Jobs, s \in Slots : Release(j, s)
  \/ \E i \in 1..MaxQueue, st \in {"approved", "rejected"} : Moderate(i, st)
  \/ \E d \in ConfigDocs : AdminSetConfig(d)

Spec == Init /\ [][Next]_vars

\* --------------------------------------------------------------- properties
Invocations == Jobs \X Slots

At(x) == inst[x[1]][x[2]]

\* the positions of an invocation of scan_pair after line 130
AfterLoad == {"confirm", "build", "spam", "publish", "returned", "raised"}

\* the returns of scan_pair at a gate that held the pair back
GateExits == {"L135", "L142", "L147", "L159", "L167", "L171", "L175"}

\* C1: an invocation of scan_pair that loaded a configuration with
\* enabled = false returns at line 135: it is never at the confirmer, the
\* builder, the spam check or publish_signal, and no record of the queue was
\* added by an invocation that had loaded enabled = false.
C1_KillSwitchStopsScan ==
  /\ \A x \in Invocations :
       (At(x).pc \in AfterLoad /\ ~At(x).cfg.enabled)
         => (At(x).pc = "returned" /\ At(x).exitAt = "L135")
  /\ \A i \in 1..Len(queue) : queue[i].from.enabled

C1_Witness ==
  \E x \in Invocations :
    /\ At(x).pc = "returned"
    /\ At(x).exitAt = "L135"
    /\ ~At(x).cfg.enabled

\* what an invocation has to have seen to have passed every gate: engine
\* enabled, pair let through by the allowlist, confirmer ok, a tier other
\* than reject, a signal built, its side the confirmer's, not suppressed
PassedEveryGate(f) ==
  /\ f.enabled
  /\ f.allowed
  /\ f.ok
  /\ f.routed \in {"free", "pro", "xpro"}
  /\ f.builder_side \in {"buy", "sell"}
  /\ f.builder_side = f.confirm_side
  /\ ~f.blocked

\* C2: the queue grows only by one record at a time, added by an invocation
\* that is at publish_signal, and every record of the queue was added by an
\* invocation that had passed every gate; the step in which an invocation
\* returns at a gate leaves the queue's length alone.
C2_OnlyGatedRecords ==
  [][ /\ Len(queue') # Len(queue)
        => /\ Len(queue') = Len(queue) + 1
           /\ \E x \in Invocations :
                /\ At(x).pc = "publish"
                /\ inst'[x[1]][x[2]].exitAt = "L114"
                /\ queue'[Len(queue')].pair = At(x).pair
                /\ queue'[Len(queue')].mode = ModeOf(x[1])
      /\ \A i \in 1..Len(queue') : PassedEveryGate(queue'[i].from)
      /\ \A x \in Invocations :
           (At(x).pc # "returned" /\ inst'[x[1]][x[2]].exitAt \in GateExits)
             => Len(queue') = Len(queue)
    ]_vars

C2_Witness ==
  /\ Len(queue) >= 1
  /\ \E x \in Invocations :
       At(x).pc = "returned" /\ At(x).exitAt \in GateExits

\* C3: a record enters the queue with status pending, no record leaves the
\* queue, and the status of a record changes only in a step of the
\* moderator, which leaves every job instance as it was.
C3_StatusOnlyByModerator ==
  [][ /\ Len(queue') >= Len(queue)
      /\ \A i \in (Len(queue) + 1)..Len(queue') : queue'[i].status = "pending"
      /\ \A i \in 1..Len(queue) :
           queue'[i].status # queue[i].status
             => /\ inst' = inst
                /\ moderated' = moderated + 1
                /\ queue[i].status = "pending"
    ]_vars

C3_Witness ==
  /\ Len(queue) = 2
  /\ queue[1].status \in {"approved", "rejected"}
  /\ queue[1].later
  /\ queue[2].status = "pending"

\* the step in which invocation x makes its spam check
SpamChecked(x) == At(x).pc = "spam" /\ inst'[x[1]][x[2]].pc # "spam"

\* The candidate of invocation x, now at the spam check, follows an accepted
\* candidate of the same pair, mode and side with no candidate of that pair
\* and mode between them: the newest record of the pair and mode has its
\* side and no later candidate has reached the check.
FollowsAccepted(x) ==
  LET f == Newest(queue, At(x).pair, ModeOf(x[1]))
  IN /\ f > 0
     /\ ~queue[f].later
     /\ queue[f].side = At(x).side

FirstStatus(x) == queue[Newest(queue, At(x).pair, ModeOf(x[1]))].status

\* C4 as stated: of two consecutive candidates of the same pair, mode and
\* side, the second is suppressed when the first was accepted and is still
\* pending at the second's check, and is not suppressed when the first's
\* status is no longer pending.
C4_AsStated ==
  [][ \A x \in Invocations :
        (SpamChecked(x) /\ FollowsAccepted(x))
          => /\ FirstStatus(x) = "pending" => inst'[x[1]][x[2]].blocked
             /\ FirstStatus(x) # "pending" => ~inst'[x[1]][x[2]].blocked
    ]_vars

\* C4: of two consecutive candidates of the same pair, mode and side, when
\* the second's lookup succeeds: the second is suppressed if the first was
\* accepted and is still pending, and is not suppressed if the first's
\* status is no longer pending and no other record of the pair and mode is
\* pending; when the lookup does not succeed the second is not suppressed.
C4_SpamGuard ==
  [][ \A x \in Invocations :
        (SpamChecked(x) /\ FollowsAccepted(x))
          => /\ (inst'[x[1]][x[2]].lookup = "ok" /\ FirstStatus(x) = "pending")
                  => inst'[x[1]][x[2]].blocked
             /\ (FirstStatus(x) # "pending"
                 /\ PendingOf(queue, At(x).pair, ModeOf(x[1])) = {})
                  => ~inst'[x[1]][x[2]].blocked
             /\ inst'[x[1]][x[2]].lookup # "ok" => ~inst'[x[1]][x[2]].blocked
    ]_vars

C4_Witness ==
  \E x \in Invocations :
    /\ At(x).pc = "returned"
    /\ At(x).exitAt = "L175"
    /\ At(x).lookup = "ok"
    /\ LET f == Newest(queue, At(x).pair, ModeOf(x[1]))
       IN /\ f > 0
          /\ queue[f].status = "pending"
          /\ queue[f].side = At(x).side

\* C5: an invocation whose spam lookup failed, or that has no store client,
\* was not suppressed and did not raise: it is at publish_signal or has
\* returned from it.
C5_SpamCheckFailsOpen ==
  \A x \in Invocations :
    At(x).lookup \in {"failed", "nodb"}
      => /\ ~At(x).blocked
         /\ \/ At(x).pc = "publish"
            \/ At(x).pc = "returned" /\ At(x).exitAt \in {"L106", "L114", "L116"}

C5_Witness ==
  \E x \in Invocations :
    /\ At(x).lookup = "failed"
    /\ At(x).pc = "publish"
    /\ PendingOf(queue, At(x).pair, ModeOf(x[1])) # {}
    /\ queue[MaxOf(PendingOf(queue, At(x).pair, ModeOf(x[1])))].side = At(x).side

\* C6 as stated: no job instance ends with an exception, and a job instance
\* that has finished has evaluated every pair of its list.
C6_ErrorsContained ==
  \A x \in Invocations :
    /\ At(x).pc # "raised"
    /\ At(x).pc = "finished" => At(x).scanned = Len(At(x).jobcfg.pairs)

\* C7: no job has more than one instance running.
C7_NoOverlap ==
  \A j \in Jobs : Cardinality(Running(j)) <= 1

C7_Witness ==
  /\ skips >= 1
  /\ \E j \in Jobs : Running(j) # {}

\* C8 as stated: the configuration an invocation of scan_pair works with is
\* the one its job read at the start of the cycle.
C8_ConfigFixedForCycle ==
  \A x \in Invocations :
    At(x).pc \in AfterLoad => At(x).cfg = At(x).jobcfg

\* C9: a candidate at the spam check or at publish_signal has the
\* confirmer's side, and the side of every record is both the confirmer's
\* and the builder's side of the invocation that added it.
C9_SidesAgree ==
  /\ \A x \in Invocations :
       At(x).pc \in {"spam", "publish"} => At(x).sig.side = At(x).side
  /\ \A i \in 1..Len(queue) :
       /\ queue[i].side = queue[i].from.confirm_side
       /\ queue[i].side = queue[i].from.builder_side

C9_Witness ==
  \E x \in Invocations :
    /\ At(x).pc = "returned"
    /\ At(x).exitAt = "L171"
    /\ At(x).side \in {"buy", "sell"}

ReasonCodes ==
  {"disabled", "pair_not_allowed", "confirm_failed", "score_error",
   "tier_rejected", "no_breakout", "side_mismatch", "spam_suppressed",
   "publish_failed"}

\* C10 as stated: an invocation of scan_pair that has returned has either
\* published a record or returned one of the reason codes.
C10_ReasonCoded ==
  \A x \in Invocations :
    At(x).pc = "returned"
      => (At(x).exitAt = "L114" \/ At(x).ret \in ReasonCodes)

\* C20 as stated: an invocation of scan_pair whose pair, upper-cased and
\* trimmed, is not in the pair list of the configuration it loaded is never
\* at the confirmer, the builder, the spam check or publish_signal and returns
\* only at line 135 or 142, and no record of the queue was added by an
\* invocation whose pair was not in the list it loaded.
C20_AsStated ==
  /\ \A x \in Invocations :
       (At(x).pc \in AfterLoad /\ At(x).pair \notin allowed_pairs(At(x).cfg))
         => (At(x).pc = "returned" /\ At(x).exitAt \in {"L135", "L142"})
  /\ \A i \in 1..Len(queue) : queue[i].from.listed

\* the returns of publish_signal without a record: no store, failed write
LoggedOnly == {"L106", "L116"}

\* C22: publish_signal never raises; when it has no store or the write
\* fails the queue stays as it was, scan_pair returns, and the job goes on
\* to its next pair or finishes its pass.
C22_PublishDegrades ==
  [][ \A x \in Invocations :
        /\ (At(x).pc = "publish" /\ inst'[x[1]][x[2]] # At(x))
             => inst'[x[1]][x[2]].pc = "returned"
        /\ (At(x).pc = "publish" /\ inst'[x[1]][x[2]].exitAt \in LoggedOnly)
             => queue' = queue
        /\ (At(x).pc = "returned" /\ At(x).exitAt \in LoggedOnly
               /\ inst'[x[1]][x[2]] # At(x))
             => inst'[x[1]][x[2]].pc \in {"scan_pair", "finished"}
    ]_vars

\* a write that failed, in a job that has already scanned a pair
C22_Witness ==
  \E x \in Invocations :
    /\ At(x).pc = "returned"
    /\ At(x).exitAt = "L116"
    /\ At(x).scanned >= 1

\* the positions of scan_pair in the order of its lines, and where each can
\* lead: the next gate, a return, or an exception of a fetch
PipelineNext ==
  [scan_pair |-> {"confirm", "returned"},
   confirm |-> {"build", "returned", "raised"},
   build |-> {"spam", "returned", "raised"},
   spam |-> {"publish", "returned"},
   publish |-> {"returned"}]

\* the store queries should_spam_block has made for an invocation
Lookups(r) == IF r.lookup \in {"ok", "failed"} THEN 1 ELSE 0

\* C24: an invocation passes the gates in the order configuration, confirm
\* with score and route, build with side comparison, spam check, publish,
\* and a return at a gate comes before every effect of a later gate: no
\* candle fetch after a return at the configuration gates, three and no
\* builder fetch after a failed confirm or a reject tier, no spam lookup
\* after no trigger or a side mismatch, no append after a suppression.
C24_GatesInOrder ==
  [][ \A x \in Invocations :
        LET a == At(x)
            b == inst'[x[1]][x[2]]
        IN /\ (a.pc \in DOMAIN PipelineNext /\ b.pc # a.pc)
                => b.pc \in PipelineNext[a.pc]
           /\ b.pc \in {"build", "spam", "publish"}
                => (b.seen.ok /\ b.tier # "reject" /\ b.fetches >= 3)
           /\ b.pc \in {"spam", "publish"}
                => (b.fetches = 4 /\ b.sig # NoSignal /\ b.sig.side = b.side)
           /\ b.pc = "publish" => ~b.blocked
           /\ b.exitAt \in {"L135", "L142"}
                => (b.fetches = 0 /\ Lookups(b) = 0)
           /\ b.exitAt \in {"L147", "L159"}
                => (b.fetches = 3 /\ Lookups(b) = 0)
           /\ b.exitAt \in {"L167", "L171"}
                => (b.fetches = 4 /\ Lookups(b) = 0)
           /\ b.exitAt = "L175" => (b.fetches = 4 /\ Lookups(b) = 1)
           /\ (a.pc # "returned" /\ b.exitAt \in GateExits)
                => Len(queue') = Len(queue)
    ]_vars

\* an invocation that made its four fetches and one lookup has returned at
\* the suppression, the queue holding the one record that suppressed it
C24_Witness ==
  \E x \in Invocations :
    /\ At(x).pc = "returned"
    /\ At(x).exitAt = "L175"
    /\ At(x).fetches = 4
    /\ Len(queue) = 1

\* ------------------------------------------------------------- termination
\* a step of instance s of job j: the thread of the job goes on whenever it
\* can, every call it makes returning or failing
JobStep(j, s) ==
  \/ ScanStart(j, s)
  \/ Confirm(j, s)
  \/ Build(j, s)
  \/ SpamCheck(j, s)
  \/ Publish(j, s)
  \/ JobNext(j, s)
  \/ Release(j, s)

\* the scheduler alone: triggers that start a job and the jobs' steps, the
\* administrator and the moderator at rest
NextCycle ==
  \/ \E j \in Jobs : TriggerStart(j)
  \/ \E j \in Jobs, s \in Slots : JobStep(j, s)

SpecCycle == Init /\ [][NextCycle]_vars

FairCycle == SpecCycle /\ \A j \in Jobs : \A s \in Slots : WF_vars(JobStep(j, s))

\* the positions of an invocation inside scan_pair
InScan == {"scan_pair", "confirm", "build", "spam", "publish", "returned"}

\* C27: an invocation of scan_pair makes at most four candle fetches, three
\* before the builder's, and at most one spam lookup; the queue grows by one
\* record in a step that takes the invocation out of publish_signal; the job
\* scans the pairs of its list once each in order; and every instance that
\* was started ends: it returns to idle after finishing its pass or raising.
C27_CycleTerminates ==
  /\ [](\A x \in Invocations :
          /\ At(x).fetches <= 4
          /\ At(x).pc \in {"scan_pair", "confirm"} => At(x).fetches = 0
          /\ At(x).pc = "build" => At(x).fetches = 3
          /\ Lookups(At(x)) <= 1
          /\ At(x).pc \in InScan
               => /\ At(x).idx \in 1..Len(At(x).jobcfg.pairs)
                  /\ At(x).scanned = At(x).idx - 1
          /\ At(x).pc = "finished"
               => At(x).scanned = Len(At(x).jobcfg.pairs))
  /\ [][ Len(queue') > Len(queue)
          => /\ Len(queue') = Len(queue) + 1
             /\ \E x \in Invocations :
                  At(x).pc = "publish" /\ inst'[x[1]][x[2]].pc = "returned"
      ]_vars
  /\ \A x \in Invocations : (At(x).pc # "idle") ~> (At(x).pc = "idle")

\* a job has finished its pass over the three default pairs, one of them
\* published
C27_Witness ==
  \E x \in Invocations :
    /\ At(x).pc = "finished"
    /\ At(x).scanned = 3
    /\ Len(queue) >= 1

\* ------------------------------------------------------------- concurrency
\* the two jobs side by side: each has its own trigger and at most
\* max_instances instances, and nothing else keeps one from starting while
\* the other runs.  The configuration document is one an administrator
\* stored before the scheduler started; its pair list names one pair twice,
\* so that one job scans the pair twice while the other job scans it too.
InitConcurrent ==
  /\ fbInit \in BOOLEAN
  /\ db \in (IF fbInit THEN {"none", "client"} ELSE {"none"})
  /\ docExists = TRUE
  /\ docData = [pairs |-> <<btc_padded, BTC>>, min_xscore_free |-> Num(50)]
  /\ queue = <<>>
  /\ inst = [j \in Jobs |-> [s \in Slots |-> IdleInst]]
  /\ runs = 0
  /\ skips = 0
  /\ changes = 0
  /\ moderated = 0
  /\ signals = <<>>
  /\ call = NoCall

NextConcurrent ==
  \/ \E j \in Jobs : StartJob(j)
  \/ \E j \in Jobs, s \in Slots : JobStep(j, s)

SpecConcurrent == InitConcurrent /\ [][NextConcurrent]_vars

\* positions i < k of queue q hold pending records of one pair and mode
\* with no pending record of that pair and mode between them
AdjacentPending(q, i, k) ==
  /\ i < k
  /\ q[i].status = "pending" /\ q[k].status = "pending"
  /\ q[i].pair = q[k].pair /\ q[i].mode = q[k].mode
  /\ \A m \in (i + 1)..(k - 1) :
       ~(q[m].status = "pending" /\ q[m].pair = q[i].pair
         /\ q[m].mode = q[i].mode)

\* C28: with scans started by the two jobs only, side by side, and no
\* status changed: a record added by an invocation whose lookup succeeded
\* has the other side than the newest pending record of its pair and mode
\* at the moment it is added, so that it never stands next to a pending
\* record of its pair, mode and side; and every record of the queue is
\* pending.
C28_NoAdjacentRepeat ==
  [][ /\ \A i \in 1..Len(queue') : queue'[i].status = "pending"
      /\ \A x \in Invocations :
           (At(x).pc = "publish" /\ At(x).lookup = "ok"
              /\ inst'[x[1]][x[2]].exitAt = "L114")
             => LET k == Len(queue')
                IN /\ k = Len(queue) + 1
                   /\ queue'[k].pair = At(x).pair
                   /\ queue'[k].mode = ModeOf(x[1])
                   /\ \A i \in 1..Len(queue) :
                        AdjacentPending(queue', i, k) => queue'[i].side # queue'[k].side
    ]_vars

\* the scalp job has queued two records of one pair with different sides, and
\* the swing job is inside a scan
C28_Witness ==
  /\ db = "client"
  /\ Len(queue) = 2
  /\ AdjacentPending(queue, 1, 2)
  /\ queue[1].mode = "scalp"
  /\ queue[1].side # queue[2].side
  /\ inst["scan_swing"][1].pc \in {"confirm", "build", "spam", "publish"}

\* ------------------------------------------------- calls of pure functions
\* the scheduler's variables, at rest while one function is called
model == <<fbInit, db, docExists, docData, queue, inst, runs, skips, changes,
           moderated, signals>>

AtRest ==
  /\ fbInit = FALSE
  /\ db = "none"
  /\ docExists = FALSE
  /\ docData = DEFAULTS
  /\ queue = <<>>
  /\ inst = [j \in Jobs |-> [s \in Slots |-> IdleInst]]
  /\ runs = 0
  /\ skips = 0
  /\ changes = 0
  /\ moderated = 0
  /\ signals = <<>>

\* ---- tier_from_xscore
ThresholdKeys == {"min_xscore_free", "min_xscore_pro", "min_xscore_xpro"}

ThresholdValues == {Num(40), Num(55), Num(70), Num(85), NotNum}

\* configurations with any of the three keys missing, numeric or not
TierCfgs == UNION {[K -> ThresholdValues] : K \in SUBSET ThresholdKeys}

TierScores == 0..SCORE_MAX

InitTier ==
  /\ AtRest
  /\ call \in {[fn |-> "tier_from_xscore", done |-> FALSE, xscore |-> x,
                cfg |-> c, out |-> "none"] : x \in TierScores, c \in TierCfgs}

TierCall ==
  /\ call.fn = "tier_from_xscore"
  /\ ~call.done
  /\ call' = [call EXCEPT !.done = TRUE,
                          !.out = tier_from_xscore(call.xscore, call.cfg)]
  /\ UNCHANGED model

NextTier == TierCall

SpecTier == InitTier /\ [][NextTier]_vars

TierKey(t) ==
  IF t = "free" THEN "min_xscore_free"
  ELSE IF t = "pro" THEN "min_xscore_pro"
  ELSE "min_xscore_xpro"

TierRank(t) == IF t = "free" THEN 1 ELSE IF t = "pro" THEN 2 ELSE 3

\* all three thresholds present, numeric and non-decreasing
NonDecreasing(cfg) ==
  /\ DOMAIN cfg = ThresholdKeys
  /\ \A k \in ThresholdKeys : cfg[k].num
  /\ cfg.min_xscore_free.v <= cfg.min_xscore_pro.v
  /\ cfg.min_xscore_pro.v <= cfg.min_xscore_xpro.v

\* the highest tier whose threshold the score meets, reject when none
HighestMet(x, cfg) ==
  LET met == {t \in {"free", "pro", "xpro"} : x >= cfg[TierKey(t)].v}
  IN IF met = {} THEN "reject"
     ELSE CHOOSE t \in met : \A u \in met : TierRank(u) <= TierRank(t)

DefaultThresholds ==
  [min_xscore_free |-> Num(55), min_xscore_pro |-> Num(70),
   min_xscore_xpro |-> Num(85)]

\* C11: with the three thresholds numeric and non-decreasing,
\* tier_from_xscore returns the highest tier whose threshold the score
\* meets and reject when it meets none; with 55/70/85 it sends 54 to
\* reject, 55 and 69 to free, 70 and 84 to pro, 85 and 100 to xpro.
C11_HighestTierMet ==
  (call.fn = "tier_from_xscore" /\ call.done /\ NonDecreasing(call.cfg))
    => /\ call.out = HighestMet(call.xscore, call.cfg)
       /\ call.cfg = DefaultThresholds
            => /\ call.xscore = 54 => call.out = "reject"
               /\ call.xscore \in {55, 69} => call.out = "free"
               /\ call.xscore \in {70, 84} => call.out = "pro"
               /\ call.xscore \in {85, 100} => call.out = "xpro"

C11_Witness ==
  /\ call.fn = "tier_from_xscore"
  /\ call.done
  /\ call.cfg = DefaultThresholds
  /\ call.xscore = 85
  /\ call.out = "xpro"

\* C12 as stated: with a threshold missing or not numeric, or with the
\* three not non-decreasing, tier_from_xscore routes with 55/70/85.
C12_FallsBackEntirely ==
  (call.fn = "tier_from_xscore" /\ call.done /\ ~NonDecreasing(call.cfg))
    => call.out = HighestMet(call.xscore, DefaultThresholds)

\* reject < free < pro < xpro
TierOrder(t) ==
  CASE t = "reject" -> 0
    [] t = "free" -> 1
    [] t = "pro" -> 2
    [] t = "xpro" -> 3

\* C29: under one configuration, whatever its thresholds, a score at least as
\* high as another receives a tier at least as high.
C29_MonotoneInScore ==
  (call.fn = "tier_from_xscore" /\ call.done)
    => \A y \in TierScores :
         y >= call.xscore
           => TierOrder(tier_from_xscore(y, call.cfg)) >= TierOrder(call.out)

\* thresholds out of order, free above pro above xpro, and a score between
\* them
C29_Witness ==
  /\ call.fn = "tier_from_xscore"
  /\ call.done
  /\ DOMAIN call.cfg = ThresholdKeys
  /\ call.cfg.min_xscore_free = Num(85)
  /\ call.cfg.min_xscore_pro = Num(70)
  /\ call.cfg.min_xscore_xpro = Num(40)
  /\ call.xscore = 60
  /\ call.out = "xpro"

\* ---- multi_tf_confirm
\* a medium or slow series whose last close equals the one before, in a
\* strong trend
DF_TIE == Frame(25, BaseCandle,
                TaVal(5), TaVal(40), TaVal(50), TaVal(1000), TaVal(990))

\* 24 candles closing up: the 20-period average exists and lies 1.8% from
\* the close, the 50-period average and the ADX do not exist
DF_24 == Frame(24, Candle(1010, 995, 1008, 200),
               TaVal(8), TaNaN, TaVal(70), TaVal(990), TaNaN)

ConfirmFrames == DataFrames \cup {DF_TIE, DF_24}

\* what each of the three fetches of lines 45-47 gives: the frame, or the
\* RuntimeError of a fetch that failed on every endpoint
ConfirmNone == [raised |-> TRUE, df |-> NoDf]

ConfirmFetches ==
  {ConfirmNone}
    \cup {[raised |-> FALSE, df |-> d] : d \in ConfirmFrames}

NoFeats == [structure_strength |-> 0, trend_strength |-> 0, momentum |-> 0,
            volatility |-> 0]

\* multi_tf_confirm with its fetches, lines 45-70: an exception of a fetch
\* leaves the function, and then there is no result
confirm_fetching(o5, o15, o1h) ==
  IF o5.raised \/ o15.raised \/ o1h.raised
    THEN [raised |-> TRUE, ok |-> FALSE, side |-> "none",
          feats |-> [f5 |-> NoFeats, f15 |-> NoFeats, f1h |-> NoFeats]]
  ELSE LET c == multi_tf_confirm(o5.df, o15.df, o1h.df)
       IN [raised |-> FALSE, ok |-> c.ok, side |-> c.side, feats |-> c.feats]

InitConfirm ==
  /\ AtRest
  /\ call \in {[fn |-> "multi_tf_confirm", done |-> FALSE,
                o5 |-> a, o15 |-> b, o1h |-> c,
                out |-> confirm_fetching(ConfirmNone, ConfirmNone, ConfirmNone)] :
                 a \in ConfirmFetches, b \in ConfirmFetches, c \in ConfirmFetches}

ConfirmCall ==
  /\ call.fn = "multi_tf_confirm"
  /\ ~call.done
  /\ call' = [call EXCEPT !.done = TRUE,
                          !.out = confirm_fetching(call.o5, call.o15, call.o1h)]
  /\ UNCHANGED model

NextConfirm == ConfirmCall

SpecConfirm == InitConfirm /\ [][NextConfirm]_vars

\* the sign of last close minus previous close; 0 with fewer than 2 candles
CloseSign(df) ==
  LET d == df.candles
      n == Len(d)
  IN IF n < 2 THEN 0
     ELSE IF d[n].close > d[n - 1].close THEN 1
     ELSE IF d[n].close < d[n - 1].close THEN 0 - 1
     ELSE 0

Returned(fn) == call.fn = fn /\ call.done

\* C13 as stated: multi_tf_confirm returns ok only with a breakout on the
\* fast series, the sign of the last close change of the medium and of the
\* slow series equal to the breakout's direction, fast structure_strength
\* >= 0.25, medium trend_strength >= 0.25 and slow trend_strength >= 0.20.
C13_OkOnlyIfAll ==
  (Returned("multi_tf_confirm") /\ ~call.out.raised /\ call.out.ok)
    => LET dir == IF call.out.side = "buy" THEN 1 ELSE 0 - 1
       IN /\ call.out.side \in {"buy", "sell"}
          /\ call.out.side = _structure_side(call.o5.df)
          /\ CloseSign(call.o15.df) = dir
          /\ CloseSign(call.o1h.df) = dir
          /\ call.out.feats.f5.structure_strength >= STRUCTURE_MIN
          /\ call.out.feats.f15.trend_strength >= TREND15_MIN
          /\ call.out.feats.f1h.trend_strength >= TREND1H_MIN

\* C14 as stated: multi_tf_confirm returns ok = false when one of the three
\* series has fewer than 25 candles.
C14_ShortSeriesNotOk ==
  (/\ Returned("multi_tf_confirm")
   /\ ~call.out.raised
   /\ \/ Len(call.o5.df.candles) < MIN_STRUCTURE_LEN
      \/ Len(call.o15.df.candles) < MIN_STRUCTURE_LEN
      \/ Len(call.o1h.df.candles) < MIN_STRUCTURE_LEN)
    => ~call.out.ok

\* C15 as stated: multi_tf_confirm always returns, with the bundle of the
\* three timeframes; a failed fetch gives ok = false and no exception.
C15_AlwaysReturnsBundle ==
  Returned("multi_tf_confirm")
    => /\ ~call.out.raised
       /\ call.out.feats.f5 = extract_features(call.o5.df)
       /\ call.out.feats.f15 = extract_features(call.o15.df)
       /\ call.out.feats.f1h = extract_features(call.o1h.df)

\* ---- generate_signal
UpCandle == Candle(1010, 995, 1008, 200)
DownCandle == Candle(995, 980, 982, 200)

\* series of 20, 21 and 25 candles that end above, below or inside the
\* range of the candles before, with three values of the ATR, priced in
\* units of 0.0001 and of 0.00000001
SignalFrames ==
  {Repriced(Frame(n, last, TaVal(a), TaVal(40), TaVal(50), TaVal(1000), TaVal(990)), t) :
     n \in {ROLL, ROLL + 1, MIN_STRUCTURE_LEN},
     last \in {UpCandle, DownCandle, BaseCandle},
     a \in {3, 5, 8},
     t \in {TICK, TINY_TICK}}

InitSignal ==
  /\ AtRest
  /\ call \in {[fn |-> "generate_signal", done |-> FALSE, df |-> d, mode |-> m,
                out |-> NoSignal] : d \in SignalFrames, m \in {"scalp", "swing"}}

SignalCall ==
  /\ call.fn = "generate_signal"
  /\ ~call.done
  /\ call' = [call EXCEPT !.done = TRUE,
                          !.out = generate_signal(call.df, call.mode)]
  /\ UNCHANGED model

NextSignal == SignalCall

SpecSignal == InitSignal /\ [][NextSignal]_vars

\* C16 as stated: a signal generate_signal returns has entry_min <=
\* entry_mid <= entry_max, a risk |entry_mid - sl| above 0, and for a buy
\* sl < entry_mid < tp1 < tp2 < tp3, for a sell sl > entry_mid > tp1 > tp2 >
\* tp3.
C16_LevelsOrdered ==
  (Returned("generate_signal") /\ call.out # NoSignal)
    => LET g == call.out
       IN /\ g.entry_min <= g.entry_mid
          /\ g.entry_mid <= g.entry_max
          /\ Abs(g.entry_mid - g.sl) > 0
          /\ g.side = "buy"
               => (g.sl < g.entry_mid /\ g.entry_mid < g.tp1
                   /\ g.tp1 < g.tp2 /\ g.tp2 < g.tp3)
          /\ g.side = "sell"
               => (g.sl > g.entry_mid /\ g.entry_mid > g.tp1
                   /\ g.tp1 > g.tp2 /\ g.tp2 > g.tp3)

\* ---- calculate_xscore
\* values of a feature, in thousandths: four in [0,1], one above
FeatureGrid == {0, 200, 700, 1000, 3000}

ScoreFields == {"structure", "trend15", "trend1h", "momentum", "volatility"}

\* the bundle calculate_xscore reads, from the five values it uses
Bundle(v) ==
  [f5 |-> [structure_strength |-> v.structure, trend_strength |-> 0,
           momentum |-> v.momentum, volatility |-> v.volatility],
   f15 |-> [structure_strength |-> 0, trend_strength |-> v.trend15,
            momentum |-> 0, volatility |-> 0],
   f1h |-> [structure_strength |-> 0, trend_strength |-> v.trend1h,
            momentum |-> 0, volatility |-> 0]]

\* a bundle, one of its values to raise, the value to raise it to, and for
\* each of the two sums whether it falls short
InitScore ==
  /\ AtRest
  /\ call \in {[fn |-> "calculate_xscore", done |-> FALSE, v |-> v, field |-> f,
                to |-> t, low |-> a, low_raised |-> b,
                out |-> [of_v |-> 0, of_raised |-> 0]] :
                 v \in [ScoreFields -> FeatureGrid], f \in ScoreFields,
                 t \in FeatureGrid, a \in BOOLEAN, b \in BOOLEAN}
  /\ call.to > call.v[call.field]

ScoreCall ==
  /\ call.fn = "calculate_xscore"
  /\ ~call.done
  /\ call' = [call EXCEPT
                !.done = TRUE,
                !.out = [of_v |-> calculate_xscore(Bundle(call.v), call.low),
                         of_raised |-> calculate_xscore(
                            Bundle([call.v EXCEPT ![call.field] = call.to]),
                            call.low_raised)]]
  /\ UNCHANGED model

NextScore == ScoreCall

SpecScore == InitScore /\ [][NextScore]_vars

InUnit(v) == \A f \in ScoreFields : v[f] >= 0 /\ v[f] <= UNIT

\* a / b truncated toward zero, b > 0
TruncDiv(a, b) == IF a >= 0 THEN a \div b ELSE 0 - ((0 - a) \div b)

\* 35 s + 35 (0.6 t15 + 0.4 t1h) + 20 m + 10 v in millionths, for values in
\* thousandths
WeightedSum(v) ==
  35000 * v.structure + 35 * (600 * v.trend15 + 400 * v.trend1h)
    + 20000 * v.momentum + 10000 * v.volatility

\* C17 as stated: for a bundle whose fields lie in [0,1], calculate_xscore
\* returns an integer in 0..100, the weighted sum 35 structure + 35 (0.6 trend15 +
\* 0.4 trend1h) + 20 momentum + 10 volatility clamped to [0,100] and
\* truncated toward zero.
C17_WeightedScore ==
  (Returned("calculate_xscore") /\ InUnit(call.v))
    => /\ call.out.of_v \in 0..SCORE_MAX
       /\ call.out.of_v =
            TruncDiv(Min2(Max2(WeightedSum(call.v), 0), SCORE_MAX * PPM), PPM)

\* C18: raising one of the values calculate_xscore weighs, the others
\* held, never lowers the score.
C18_Monotone ==
  Returned("calculate_xscore") => call.out.of_v <= call.out.of_raised

C18_Witness ==
  /\ Returned("calculate_xscore")
  /\ call.field = "volatility"
  /\ call.out.of_v < call.out.of_raised

\* ---- extract_features
\* lengths of a series: one candle, fewer than the rolling windows, the two
\* sides of the len(d) >= 22 test, and a full series
FeatureLens == {1, 10, 21, 22, 25}

\* last candles: a breakout above, a fall below, a quiet one without volume
FeatureCandles ==
  {Candle(1100, 995, 1090, 900), Candle(995, 900, 905, 200),
   Candle(1000, 990, 995, 0)}

\* last values of the indicator series: NaN or infinite (ok = FALSE), and
\* finite values inside and outside the ranges the code normalises from
AtrValues == {TaNaN, TaVal(0), TaVal(8), TaVal(800)}
AdxValues == {TaNaN, TaVal(0 - 5), TaVal(20), TaVal(80)}
RsiValues == {TaNaN, TaVal(0), TaVal(55), TaVal(100)}
EmaValues == {TaNaN, TaVal(900), TaVal(1100)}

FeatureFrames ==
  {Frame(n, c, atr, adx, rsi, ef, es) :
     n \in FeatureLens, c \in FeatureCandles, atr \in AtrValues,
     adx \in AdxValues, rsi \in RsiValues, ef \in EmaValues, es \in EmaValues}

InitFeatures ==
  /\ AtRest
  /\ call \in {[fn |-> "extract_features", done |-> FALSE, df |-> d,
                out |-> NoFeats] : d \in FeatureFrames}

FeaturesCall ==
  /\ call.fn = "extract_features"
  /\ ~call.done
  /\ call' = [call EXCEPT !.done = TRUE, !.out = extract_features(call.df)]
  /\ UNCHANGED model

NextFeatures == FeaturesCall

SpecFeatures == InitFeatures /\ [][NextFeatures]_vars

\* C19: each of the four fields extract_features returns lies in [0,1], for
\* short series and for indicator values that are NaN or infinite as well.
C19_FeaturesInUnit ==
  Returned("extract_features")
    => /\ call.out.structure_strength \in 0..UNIT
       /\ call.out.trend_strength \in 0..UNIT
       /\ call.out.momentum \in 0..UNIT
       /\ call.out.volatility \in 0..UNIT

\* a series shorter than every window with every indicator NaN: the defaults
\* give no trend, momentum or volatility, and the volume ratio 1.0 gives
\* structure 0.35 * 0.2
C19_Witness ==
  /\ Returned("extract_features")
  /\ Len(call.df.candles) = 10
  /\ \A k \in DOMAIN call.df.ta : ~call.df.ta[k].ok
  /\ call.df.candles[10].volume = 0
  /\ call.out.trend_strength = 0
  /\ call.out.momentum = 0
  /\ call.out.volatility = 0
  /\ call.out.structure_strength = 70

\* ---- load_engine_config
ConfigKeys == DOMAIN DEFAULTS

\* two values a stored document may hold under a key
StoredValue(k, first) ==
  CASE k = "enabled" -> first
    [] k = "pairs" -> IF first THEN <<>> ELSE <<btc_padded>>
    [] OTHER -> IF first THEN Num(50) ELSE NotNum

\* documents of /config/signal_engine: any subset of the keys, the empty
\* document included
StoredDocs ==
  {[k \in K |-> StoredValue(k, b[k])] : K \in SUBSET ConfigKeys,
                                       b \in [ConfigKeys -> BOOLEAN]}

\* the application initialised or not, the document present or not, the store
\* answering the call or not
InitConfig ==
  /\ fbInit \in BOOLEAN
  /\ db = "none"
  /\ docExists \in BOOLEAN
  /\ docData \in StoredDocs
  /\ queue = <<>>
  /\ inst = [j \in Jobs |-> [s \in Slots |-> IdleInst]]
  /\ runs = 0
  /\ skips = 0
  /\ changes = 0
  /\ moderated = 0
  /\ signals = <<>>
  /\ \E up \in BOOLEAN :
       call = [fn |-> "load_engine_config", done |-> FALSE, up |-> up,
               had |-> docExists, stored |-> docData, out |-> NoCfg]

ConfigCall ==
  /\ call.fn = "load_engine_config"
  /\ ~call.done
  /\ LET l == load_engine_config(call.up)
     IN /\ docExists' = l.exists
        /\ docData' = l.data
        /\ call' = [call EXCEPT !.done = TRUE, !.out = l.cfg]
  /\ UNCHANGED <<fbInit, db, queue, inst, runs, skips, changes, moderated,
                 signals>>

NextConfig == ConfigCall

SpecConfig == InitConfig /\ [][NextConfig]_vars

\* C21: load_engine_config always returns a configuration; it is the
\* defaults when the application is not initialised, the store does not
\* answer or the document is missing, and otherwise it has every key of the
\* defaults, the stored value where the document has the key and the default
\* where it has not.
C21_DefaultsKeyByKey ==
  Returned("load_engine_config")
    => /\ ConfigKeys \subseteq DOMAIN call.out
       /\ (~fbInit \/ ~call.up \/ ~call.had) => call.out = DEFAULTS
       /\ (fbInit /\ call.up /\ call.had)
            => \A k \in ConfigKeys :
                 call.out[k] = IF k \in DOMAIN call.stored THEN call.stored[k]
                               ELSE DEFAULTS[k]

\* a stored document with some keys only, read with the store answering
C21_Witness ==
  /\ Returned("load_engine_config")
  /\ fbInit /\ call.up /\ call.had
  /\ DOMAIN call.stored = {"enabled", "pairs"}
  /\ ~call.out.enabled
  /\ call.out.min_xscore_pro = Num(70)

\* ---- fetch_ohlcv_binance
\* the timeframes the confirmer and the builder ask for
FetchIntervals == {"5m", "15m", "1h"}

\* an endpoint loop that passes over the endpoint after a failed one
skip_endpoint(i) == i + 2

\* line 34: after the except clause the for loop takes the next endpoint
next_endpoint(i) == i + 1

NoFetch == [raised |-> FALSE, df |-> NoDf]

\* the answers the endpoints would give, the endpoint the loop is at, and the
\* endpoints asked so far
InitFetch ==
  /\ AtRest
  /\ call \in {[fn |-> "fetch_ohlcv_binance", done |-> FALSE, interval |-> tf,
                resps |-> rs, base |-> 1, asked |-> <<>>, out |-> NoFetch] :
                 tf \in FetchIntervals,
                 rs \in [1..Len(BINANCE_URLS) -> Responses]}

\* one turn of the loop of lines 34-70, or the raise of line 72 after it
FetchStep ==
  /\ call.fn = "fetch_ohlcv_binance"
  /\ ~call.done
  /\ IF call.base > Len(BINANCE_URLS)
       THEN call' = [call EXCEPT !.done = TRUE,
                                 !.out = [raised |-> TRUE, df |-> NoDf]]
     ELSE IF call.resps[call.base].ok
       THEN call' = [call EXCEPT !.done = TRUE,
                                 !.asked = Append(call.asked, call.base),
                                 !.out = [raised |-> FALSE,
                                          df |-> call.resps[call.base].df]]
     ELSE call' = [call EXCEPT !.asked = Append(call.asked, call.base),
                               !.base = next_endpoint(call.base)]
  /\ UNCHANGED model

NextFetch == FetchStep

SpecFetch == InitFetch /\ [][NextFetch]_vars

\* C23: the endpoints are asked in list order, each at most once, a later
\* one only after every earlier one failed; the call returns the candles of
\* the first endpoint that answers, and raises exactly when every endpoint
\* has been asked and has failed.
C23_BoundedFallback ==
  call.fn = "fetch_ohlcv_binance"
    => /\ Len(call.asked) <= Len(BINANCE_URLS)
       /\ \A k \in 1..Len(call.asked) :
            /\ call.asked[k] = k
            /\ \A m \in 1..(k - 1) : ~call.resps[m].ok
       /\ (call.done /\ ~call.out.raised)
            => /\ call.asked # <<>>
               /\ call.resps[Len(call.asked)].ok
               /\ call.out.df = call.resps[Len(call.asked)].df
       /\ (call.done /\ call.out.raised)
            => /\ Len(call.asked) = Len(BINANCE_URLS)
               /\ \A m \in 1..Len(BINANCE_URLS) : ~call.resps[m].ok
       /\ call.done => call.out = fetch_ohlcv_binance(call.resps)

\* the first endpoint failed and the second one's candles were returned
C23_Witness ==
  /\ Returned("fetch_ohlcv_binance")
  /\ call.asked = <<1, 2>>
  /\ ~call.out.raised
  /\ call.out.df = DF_UP

\* ---- should_spam_block
MaxStored == 3

\* the fields of a stored record the query reads
StoredRecords ==
  [pair : {BTC, ETH}, mode : {"scalp", "swing"}, side : {"buy", "sell"},
   status : {"pending", "approved"}]

StoredQueues == UNION {[1..n -> StoredRecords] : n \in 0..MaxStored}

\* a queue in creation order, a BTC scalp candidate of either side, the
\* scheduler with or without a store client, the query succeeding or not
InitSpam ==
  /\ fbInit = TRUE
  /\ db \in {"none", "client"}
  /\ docExists = FALSE
  /\ docData = DEFAULTS
  /\ queue \in StoredQueues
  /\ inst = [j \in Jobs |-> [s \in Slots |-> IdleInst]]
  /\ runs = 0
  /\ skips = 0
  /\ changes = 0
  /\ moderated = 0
  /\ signals = <<>>
  /\ call \in {[fn |-> "should_spam_block", done |-> FALSE, pair |-> BTC,
                mode |-> "scalp", side |-> sd, up |-> up, out |-> FALSE] :
                 sd \in {"buy", "sell"}, up \in BOOLEAN}

SpamCall ==
  /\ call.fn = "should_spam_block"
  /\ ~call.done
  /\ call' = [call EXCEPT
                !.done = TRUE,
                !.out = should_spam_block(queue, call.pair, call.mode,
                                          call.side, call.up)]
  /\ UNCHANGED model

NextSpam == SpamCall

SpecSpam == InitSpam /\ [][NextSpam]_vars

\* the newest pending record of the candidate's pair and mode has its side
NewestPendingHasSide ==
  \E i \in 1..Len(queue) :
    /\ queue[i].pair = call.pair /\ queue[i].mode = call.mode
    /\ queue[i].status = "pending" /\ queue[i].side = call.side
    /\ \A k \in (i + 1)..Len(queue) :
         ~(queue[k].pair = call.pair /\ queue[k].mode = call.mode
           /\ queue[k].status = "pending")

SamePairMode(rec) == rec.pair = call.pair /\ rec.mode = call.mode

\* C25 as stated: a candidate is suppressed if and only if the newest
\* pending record of its pair and mode has its side.
C25_AsStated ==
  Returned("should_spam_block") => (call.out <=> NewestPendingHasSide)

\* C25: when the scheduler has a store client and the query succeeds, a
\* candidate is suppressed if and only if the newest pending record of its
\* pair and mode has its side, and without a client or with a failed query it
\* is not suppressed; the records of other pairs and modes make no
\* difference to the answer.
C25_MostRecentOnly ==
  Returned("should_spam_block")
    => /\ (db = "client" /\ call.up) => (call.out <=> NewestPendingHasSide)
       /\ (db = "none" \/ ~call.up) => ~call.out
       /\ call.out = should_spam_block(SelectSeq(queue, SamePairMode), call.pair,
                                       call.mode, call.side, call.up)

\* an older pending record with the candidate's side under a newer pending
\* one with the other side, a record of another pair in between: not
\* suppressed
C25_Witness ==
  /\ Returned("should_spam_block")
  /\ db = "client" /\ call.up
  /\ Len(queue) = 3
  /\ SamePairMode(queue[1]) /\ queue[1].status = "pending"
  /\ queue[1].side = call.side
  /\ queue[2].pair = ETH /\ queue[2].side = call.side
  /\ SamePairMode(queue[3]) /\ queue[3].status = "pending"
  /\ queue[3].side # call.side
  /\ ~call.out

\* ---- POST /signals/generate
\* the document signals_generate stores, lines 201-213; of its fields the
\* levels of the signal, the features, the id and the time are left out
Payload(symbol, mode, tier, side, xscore) ==
  [symbol |-> symbol, mode |-> mode, tier |-> tier, side |-> side,
   confidence |-> xscore, status |-> "active"]

\* a request, the configuration document in the store, and main.py's db:
\* a client only when the application was initialised (lines 46-71)
InitManual ==
  /\ fbInit \in BOOLEAN
  /\ db = "none"
  /\ docExists \in BOOLEAN
  /\ docData \in ConfigDocs \cup {DEFAULTS}
  /\ queue = <<>>
  /\ inst = [j \in Jobs |-> [s \in Slots |-> IdleInst]]
  /\ runs = 0
  /\ skips = 0
  /\ changes = 0
  /\ moderated = 0
  /\ signals = <<>>
  /\ call \in {[fn |-> "signals_generate", done |-> FALSE, symbol |-> sy,
                mode |-> m, main_db |-> d,
                out |-> [code |-> 0, status |-> "none"]] :
                 sy \in {btc_padded, ETH}, m \in {"scalp", "swing"},
                 d \in {"none", "client"}}
  /\ call.main_db = "client" => fbInit

\* signals_generate, lines 142-224.  up: the store answers the configuration
\* read; c: the confirmer's answer; b: the builder's; wrote: the write of
\* line 217 succeeds
ManualGenerate ==
  /\ call.fn = "signals_generate"
  /\ ~call.done
  /\ \E up \in BOOLEAN, c \in ConfirmOutcomes, wrote \in BOOLEAN :
       \E b \in BuildOutcomes(call.mode) :
         LET l == load_engine_config(up)
             cfg == l.cfg
             symbol == upper_strip(call.symbol)
             routed_tier == tier_from_xscore(c.xscore, cfg)
             early ==
               IF ~cfg.enabled THEN [code |-> 503, status |-> "error"]
               ELSE IF allowed_pairs(cfg) # {} /\ symbol \notin allowed_pairs(cfg)
                 THEN [code |-> 400, status |-> "error"]
               ELSE IF c.raised THEN [code |-> 500, status |-> "error"]
               ELSE IF ~c.ok THEN [code |-> 200, status |-> "no_signal"]
               ELSE IF routed_tier = "reject"
                 THEN [code |-> 200, status |-> "no_signal"]
               ELSE IF b.raised THEN [code |-> 500, status |-> "error"]
               ELSE IF b.signal = NoSignal
                 THEN [code |-> 200, status |-> "no_signal"]
               ELSE IF b.signal.side # c.side
                 THEN [code |-> 200, status |-> "no_signal"]
               ELSE [code |-> 0, status |-> "none"]
             stores == early.code = 0 /\ call.main_db # "none" /\ wrote
             out ==
               IF early.code # 0 THEN early
               ELSE IF call.main_db # "none" /\ ~wrote
                 THEN [code |-> 500, status |-> "error"]
               ELSE [code |-> 200, status |-> "active"]
         IN /\ docExists' = l.exists
            /\ docData' = l.data
            /\ signals' = IF stores
                            THEN Append(signals,
                                        Payload(symbol, call.mode, routed_tier,
                                                c.side, c.xscore))
                          ELSE signals
            /\ call' = [call EXCEPT !.done = TRUE, !.out = out]
  /\ UNCHANGED <<fbInit, db, queue, inst, runs, skips, changes, moderated>>

NextManual == ManualGenerate

SpecManual == InitManual /\ [][NextManual]_vars

\* C26 as stated: every signal the backend persists is a record of
\* signal_queue with status pending; the signals collection receives no
\* document from a backend operation, the manual one included.
C26_QueueFirst ==
  /\ signals = <<>>
  /\ \A i \in 1..Len(queue) : queue[i].status = "pending"

\* ---------------------------------------------------------------------
\* One scalp scan invocation whose two fetches of the 5m interval return
\* the same series (scheduler.py 145-171)
\* ---------------------------------------------------------------------

\* 25 candles whose last close sits exactly on the highest high, or on the
\* lowest low, of the 20 candles before it, on doubled volume
DF_EDGE_UP == Frame(25, Candle(1000, 995, 1000, 200),
                    TaVal(8), TaVal(40), TaVal(70), TaVal(1000), TaVal(990))
DF_EDGE_DOWN == Frame(25, Candle(995, 990, 990, 200),
                      TaVal(8), TaVal(40), TaVal(30), TaVal(990), TaVal(1000))

\* the 5m series the provider may return to both fetches
SameFrames ==
  ConfirmFrames
    \cup {DF_EDGE_UP, DF_EDGE_DOWN,
          Repriced(DF_UP, TINY_TICK), Repriced(DF_DOWN, TINY_TICK)}

NoSame == [ok |-> FALSE, side |-> "none", signal |-> NoSignal, stop |-> "unset"]

InitSame ==
  /\ AtRest
  /\ call \in {[fn |-> "scan_pair", done |-> FALSE, df_5m |-> a, df_15m |-> b,
                df_1h |-> c, out |-> NoSame] :
                 a \in SameFrames, b \in ConfirmFrames, c \in ConfirmFrames}

\* lines 145-171 in scalp mode: the confirmation on the three series, then
\* the builder on the 5m series again and the two gates on its result
SameCall ==
  /\ call.fn = "scan_pair"
  /\ ~call.done
  /\ LET confirm == multi_tf_confirm(call.df_5m, call.df_15m, call.df_1h)
         b == FetchAndBuild([raised |-> FALSE, df |-> call.df_5m], "scalp")
     IN call' = [call EXCEPT !.done = TRUE,
                             !.out = [ok |-> confirm.ok,
                                      side |-> confirm.side,
                                      signal |-> b.signal,
                                      stop |-> StopsAtBuild(b, confirm.side)]]
  /\ UNCHANGED model

NextSame == SameCall

SpecSame == InitSame /\ [][NextSame]_vars

\* C30: in scalp mode, when both fetches of the 5m interval return the same
\* series and the confirmation is ok, the builder returns a signal, its side
\* is the side of the confirmation, and neither the BUILD gate (line 167)
\* nor the SIDE_CONSISTENCY gate (line 171) stops the invocation
C30_BuilderAgrees ==
  (call.fn = "scan_pair" /\ call.done /\ call.out.ok)
    => /\ call.out.signal # NoSignal
       /\ call.out.signal.side = call.out.side
       /\ call.out.stop = "pass"

\* a confirmed sell on a series priced in units of 0.00000001 passes both
\* gates with a sell signal
C30_Witness ==
  /\ call.fn = "scan_pair"
  /\ call.done
  /\ call.df_5m = Repriced(DF_DOWN, TINY_TICK)
  /\ call.out.ok
  /\ call.out.side = "sell"
  /\ call.out.signal # NoSignal
  /\ call.out.signal.side = "sell"
  /\ call.out.stop = "pass"

====
